---------------------------- MODULE Spec2Model ----------------------------
(***************************************************************************)
(* A model of app.py: the persona table and get_llm_response (the          *)
(* completion gateway), and main (the Streamlit form that calls it).       *)
(*                                                                         *)
(* Streamlit runs the script from its first line on every interaction, so  *)
(* one action of Spec is one run of the script.  A run that reaches        *)
(* client.chat.completions.create stops there (call.pc = "awaiting") until *)
(* the transport answers; the answer's action finishes the run.            *)
(***************************************************************************)
EXTENDS Integers, Sequences, FiniteSets, TLC

VARIABLES
    environ,      \* os.environ["OPENAI_API_KEY"]: None when unset, else Some(value)
    dotenv,       \* OPENAI_API_KEY of the .env file: None when absent, else Some(value)
    expert_type,  \* main: the st.radio selection
    user_input,   \* main: the st.text_area content
    info,         \* main: expert_descriptions[expert_type], shown by st.info
    rendered,     \* main: what the answer area shows after this run
    call          \* the frame of this run's get_llm_response call

vars == <<environ, dotenv, expert_type, user_input, info, rendered, call>>

----------------------------------------------------------------------------
\* Python values

\* None is the empty tuple and any other value v is the one-element tuple.
None == <<>>
Some(v) == <<v>>

\* prefix-test of str: s.startswith(prefix)
StartsWith(s, prefix) ==
    /\ Len(s) >= Len(prefix)
    /\ SubSeq(s, 1, Len(prefix)) = prefix

\* substring test of str: sub in s
Contains(sub, s) ==
    \E i \in 1..(Len(s) - Len(sub) + 1) : SubSeq(s, i, i + Len(sub) - 1) = sub

UpperLetters == "ABCDEFGHIJKLMNOPQRSTUVWXYZ"
LowerLetters == "abcdefghijklmnopqrstuvwxyz"

\* str.lower of one ASCII character
LowerChar(c) ==
    IF \E i \in 1..Len(UpperLetters) : SubSeq(UpperLetters, i, i) = c
    THEN LET i == CHOOSE j \in 1..Len(UpperLetters) : SubSeq(UpperLetters, j, j) = c
         IN  SubSeq(LowerLetters, i, i)
    ELSE c

\* str.lower
RECURSIVE Lower(_)
Lower(s) ==
    IF Len(s) = 0 THEN ""
    ELSE LowerChar(SubSeq(s, 1, 1)) \o Lower(SubSeq(s, 2, Len(s)))

Whitespace == {" ", "\t", "\n"}

\* str.strip
RECURSIVE Strip(_)
Strip(s) ==
    IF Len(s) = 0 THEN ""
    ELSE IF SubSeq(s, 1, 1) \in Whitespace THEN Strip(SubSeq(s, 2, Len(s)))
    ELSE IF SubSeq(s, Len(s), Len(s)) \in Whitespace THEN Strip(SubSeq(s, 1, Len(s) - 1))
    ELSE s

----------------------------------------------------------------------------
\* The string literals of app.py

\* The five persona identifiers (app.py:22-26, 142, 148-152).  A string literal of
\* the source is written with every non-ASCII character as its \uXXXX escape; the
\* backquote, which a TLA+ string cannot hold, is written \u0060.  The encoding is
\* injective, so equal strings stay equal and distinct ones distinct.
\* 健康アドバイザー
HealthAdvisor == "\\u5065\\u5eb7\\u30a2\\u30c9\\u30d0\\u30a4\\u30b6\\u30fc"
\* 料理研究家
CulinaryExpert == "\\u6599\\u7406\\u7814\\u7a76\\u5bb6"
\* ITコンサルタント
ITConsultant == "IT\\u30b3\\u30f3\\u30b5\\u30eb\\u30bf\\u30f3\\u30c8"
\* 旅行ガイド
TravelGuide == "\\u65c5\\u884c\\u30ac\\u30a4\\u30c9"
\* ビジネスコーチ
BusinessCoach == "\\u30d3\\u30b8\\u30cd\\u30b9\\u30b3\\u30fc\\u30c1"

\* expert_prompts, the dict literal of get_llm_response (app.py:21-27).
\* 健康アドバイザー: あなたは健康に関する専門家です。医学的知識に基づいて、安全で実践的な健康アドバイスを提供してください。ただし、重篤な症状の場合は医師への相談を促してください。
\* 料理研究家: あなたは料理の専門家です。美味しく栄養バランスの取れた料理レシピや調理のコツ、食材の選び方について詳しくアドバイスしてください。
\* ITコンサルタント: あなたはITとプログラミングの専門家です。技術的な問題解決や最新のIT動向、プログラミングに関する質問に対して、わかりやすく実践的なアドバイスを提供してください。
\* 旅行ガイド: あなたは旅行の専門家です。世界各地の観光地、文化、グルメ、交通手段について詳しく、素晴らしい旅行プランや旅行のコツを提案してください。
\* ビジネスコーチ: あなたはビジネスとキャリアの専門家です。経営戦略、マーケティング、キャリア開発、チームマネジメントについて実践的なアドバイスを提供してください。
expert_prompts ==
    HealthAdvisor :> "\\u3042\\u306a\\u305f\\u306f\\u5065\\u5eb7\\u306b\\u95a2\\u3059\\u308b\\u5c02\\u9580\\u5bb6\\u3067\\u3059\\u3002\\u533b\\u5b66\\u7684\\u77e5\\u8b58\\u306b\\u57fa\\u3065\\u3044\\u3066\\u3001\\u5b89\\u5168\\u3067\\u5b9f\\u8df5\\u7684\\u306a\\u5065\\u5eb7\\u30a2\\u30c9\\u30d0\\u30a4\\u30b9\\u3092\\u63d0\\u4f9b\\u3057\\u3066\\u304f\\u3060\\u3055\\u3044\\u3002\\u305f\\u3060\\u3057\\u3001\\u91cd\\u7be4\\u306a\\u75c7\\u72b6\\u306e\\u5834\\u5408\\u306f\\u533b\\u5e2b\\u3078\\u306e\\u76f8\\u8ac7\\u3092\\u4fc3\\u3057\\u3066\\u304f\\u3060\\u3055\\u3044\\u3002"
    @@ CulinaryExpert :> "\\u3042\\u306a\\u305f\\u306f\\u6599\\u7406\\u306e\\u5c02\\u9580\\u5bb6\\u3067\\u3059\\u3002\\u7f8e\\u5473\\u3057\\u304f\\u6804\\u990a\\u30d0\\u30e9\\u30f3\\u30b9\\u306e\\u53d6\\u308c\\u305f\\u6599\\u7406\\u30ec\\u30b7\\u30d4\\u3084\\u8abf\\u7406\\u306e\\u30b3\\u30c4\\u3001\\u98df\\u6750\\u306e\\u9078\\u3073\\u65b9\\u306b\\u3064\\u3044\\u3066\\u8a73\\u3057\\u304f\\u30a2\\u30c9\\u30d0\\u30a4\\u30b9\\u3057\\u3066\\u304f\\u3060\\u3055\\u3044\\u3002"
    @@ ITConsultant :> "\\u3042\\u306a\\u305f\\u306fIT\\u3068\\u30d7\\u30ed\\u30b0\\u30e9\\u30df\\u30f3\\u30b0\\u306e\\u5c02\\u9580\\u5bb6\\u3067\\u3059\\u3002\\u6280\\u8853\\u7684\\u306a\\u554f\\u984c\\u89e3\\u6c7a\\u3084\\u6700\\u65b0\\u306eIT\\u52d5\\u5411\\u3001\\u30d7\\u30ed\\u30b0\\u30e9\\u30df\\u30f3\\u30b0\\u306b\\u95a2\\u3059\\u308b\\u8cea\\u554f\\u306b\\u5bfe\\u3057\\u3066\\u3001\\u308f\\u304b\\u308a\\u3084\\u3059\\u304f\\u5b9f\\u8df5\\u7684\\u306a\\u30a2\\u30c9\\u30d0\\u30a4\\u30b9\\u3092\\u63d0\\u4f9b\\u3057\\u3066\\u304f\\u3060\\u3055\\u3044\\u3002"
    @@ TravelGuide :> "\\u3042\\u306a\\u305f\\u306f\\u65c5\\u884c\\u306e\\u5c02\\u9580\\u5bb6\\u3067\\u3059\\u3002\\u4e16\\u754c\\u5404\\u5730\\u306e\\u89b3\\u5149\\u5730\\u3001\\u6587\\u5316\\u3001\\u30b0\\u30eb\\u30e1\\u3001\\u4ea4\\u901a\\u624b\\u6bb5\\u306b\\u3064\\u3044\\u3066\\u8a73\\u3057\\u304f\\u3001\\u7d20\\u6674\\u3089\\u3057\\u3044\\u65c5\\u884c\\u30d7\\u30e9\\u30f3\\u3084\\u65c5\\u884c\\u306e\\u30b3\\u30c4\\u3092\\u63d0\\u6848\\u3057\\u3066\\u304f\\u3060\\u3055\\u3044\\u3002"
    @@ BusinessCoach :> "\\u3042\\u306a\\u305f\\u306f\\u30d3\\u30b8\\u30cd\\u30b9\\u3068\\u30ad\\u30e3\\u30ea\\u30a2\\u306e\\u5c02\\u9580\\u5bb6\\u3067\\u3059\\u3002\\u7d4c\\u55b6\\u6226\\u7565\\u3001\\u30de\\u30fc\\u30b1\\u30c6\\u30a3\\u30f3\\u30b0\\u3001\\u30ad\\u30e3\\u30ea\\u30a2\\u958b\\u767a\\u3001\\u30c1\\u30fc\\u30e0\\u30de\\u30cd\\u30b8\\u30e1\\u30f3\\u30c8\\u306b\\u3064\\u3044\\u3066\\u5b9f\\u8df5\\u7684\\u306a\\u30a2\\u30c9\\u30d0\\u30a4\\u30b9\\u3092\\u63d0\\u4f9b\\u3057\\u3066\\u304f\\u3060\\u3055\\u3044\\u3002"

\* The default of expert_prompts.get (app.py:29).
\* あなたは一般的なアシスタントです。質問に対して親切で正確な回答を提供してください。
FallbackPrompt == "\\u3042\\u306a\\u305f\\u306f\\u4e00\\u822c\\u7684\\u306a\\u30a2\\u30b7\\u30b9\\u30bf\\u30f3\\u30c8\\u3067\\u3059\\u3002\\u8cea\\u554f\\u306b\\u5bfe\\u3057\\u3066\\u89aa\\u5207\\u3067\\u6b63\\u78ba\\u306a\\u56de\\u7b54\\u3092\\u63d0\\u4f9b\\u3057\\u3066\\u304f\\u3060\\u3055\\u3044\\u3002"

\* expert_descriptions, the dict literal of main (app.py:147-153).
\* 健康アドバイザー: 💊 健康管理、栄養、運動、睡眠に関するアドバイスを提供します
\* 料理研究家: 🍳 レシピ、調理方法、食材選び、栄養バランスについてアドバイスします
\* ITコンサルタント: 💻 プログラミング、システム設計、IT戦略について専門的なアドバイスを提供します
\* 旅行ガイド: ✈️ 世界各地の観光情報、旅行プラン、文化について詳しくガイドします
\* ビジネスコーチ: 💼 経営戦略、マーケティング、キャリア開発について実践的なアドバイスを提供します
expert_descriptions ==
    HealthAdvisor :> "\\U0001f48a \\u5065\\u5eb7\\u7ba1\\u7406\\u3001\\u6804\\u990a\\u3001\\u904b\\u52d5\\u3001\\u7761\\u7720\\u306b\\u95a2\\u3059\\u308b\\u30a2\\u30c9\\u30d0\\u30a4\\u30b9\\u3092\\u63d0\\u4f9b\\u3057\\u307e\\u3059"
    @@ CulinaryExpert :> "\\U0001f373 \\u30ec\\u30b7\\u30d4\\u3001\\u8abf\\u7406\\u65b9\\u6cd5\\u3001\\u98df\\u6750\\u9078\\u3073\\u3001\\u6804\\u990a\\u30d0\\u30e9\\u30f3\\u30b9\\u306b\\u3064\\u3044\\u3066\\u30a2\\u30c9\\u30d0\\u30a4\\u30b9\\u3057\\u307e\\u3059"
    @@ ITConsultant :> "\\U0001f4bb \\u30d7\\u30ed\\u30b0\\u30e9\\u30df\\u30f3\\u30b0\\u3001\\u30b7\\u30b9\\u30c6\\u30e0\\u8a2d\\u8a08\\u3001IT\\u6226\\u7565\\u306b\\u3064\\u3044\\u3066\\u5c02\\u9580\\u7684\\u306a\\u30a2\\u30c9\\u30d0\\u30a4\\u30b9\\u3092\\u63d0\\u4f9b\\u3057\\u307e\\u3059"
    @@ TravelGuide :> "\\u2708\\ufe0f \\u4e16\\u754c\\u5404\\u5730\\u306e\\u89b3\\u5149\\u60c5\\u5831\\u3001\\u65c5\\u884c\\u30d7\\u30e9\\u30f3\\u3001\\u6587\\u5316\\u306b\\u3064\\u3044\\u3066\\u8a73\\u3057\\u304f\\u30ac\\u30a4\\u30c9\\u3057\\u307e\\u3059"
    @@ BusinessCoach :> "\\U0001f4bc \\u7d4c\\u55b6\\u6226\\u7565\\u3001\\u30de\\u30fc\\u30b1\\u30c6\\u30a3\\u30f3\\u30b0\\u3001\\u30ad\\u30e3\\u30ea\\u30a2\\u958b\\u767a\\u306b\\u3064\\u3044\\u3066\\u5b9f\\u8df5\\u7684\\u306a\\u30a2\\u30c9\\u30d0\\u30a4\\u30b9\\u3092\\u63d0\\u4f9b\\u3057\\u307e\\u3059"

\* Mutant of RadioOptions: the form offers a sixth label the tables do not hold.
RadioOptionsWithExtra ==
    <<HealthAdvisor, CulinaryExpert, ITConsultant, TravelGuide, BusinessCoach, "Astrologer">>

\* The options of st.radio, in order (app.py:142).
RadioOptions == <<HealthAdvisor, CulinaryExpert, ITConsultant, TravelGuide, BusinessCoach>>

\* The string returned at app.py:35-35.
\* ❌ エラー: OpenAI APIキーが設定されていません。.envファイルにOPENAI_API_KEYを設定してください。
MsgMissingCredential == "\\u274c \\u30a8\\u30e9\\u30fc: OpenAI API\\u30ad\\u30fc\\u304c\\u8a2d\\u5b9a\\u3055\\u308c\\u3066\\u3044\\u307e\\u305b\\u3093\\u3002.env\\u30d5\\u30a1\\u30a4\\u30eb\\u306bOPENAI_API_KEY\\u3092\\u8a2d\\u5b9a\\u3057\\u3066\\u304f\\u3060\\u3055\\u3044\\u3002"

\* The string returned at app.py:38-38.
\* ❌ エラー: OpenAI APIキーの形式が正しくありません。正しいAPIキーを設定してください。
MsgMalformedCredential == "\\u274c \\u30a8\\u30e9\\u30fc: OpenAI API\\u30ad\\u30fc\\u306e\\u5f62\\u5f0f\\u304c\\u6b63\\u3057\\u304f\\u3042\\u308a\\u307e\\u305b\\u3093\\u3002\\u6b63\\u3057\\u3044API\\u30ad\\u30fc\\u3092\\u8a2d\\u5b9a\\u3057\\u3066\\u304f\\u3060\\u3055\\u3044\\u3002"

\* The string returned at app.py:60-74.
\* First line: ❌ **APIキーエラー**: OpenAI APIキーが無効です。
MsgInvalidCredential == "\\u274c **API\\u30ad\\u30fc\\u30a8\\u30e9\\u30fc**: OpenAI API\\u30ad\\u30fc\\u304c\\u7121\\u52b9\\u3067\\u3059\\u3002\n            \n**\\u8003\\u3048\\u3089\\u308c\\u308b\\u539f\\u56e0**:\n- API\\u30ad\\u30fc\\u304c\\u671f\\u9650\\u5207\\u308c\\u307e\\u305f\\u306f\\u7121\\u52b9\n- API\\u30ad\\u30fc\\u306e\\u5f62\\u5f0f\\u304c\\u6b63\\u3057\\u304f\\u306a\\u3044\n- \\u74b0\\u5883\\u5909\\u6570\\u306e\\u8aad\\u307f\\u8fbc\\u307f\\u30a8\\u30e9\\u30fc\n\n**\\u89e3\\u6c7a\\u65b9\\u6cd5**:\n1. https://platform.openai.com/api-keys \\u306b\\u30a2\\u30af\\u30bb\\u30b9\n2. \\u65b0\\u3057\\u3044API\\u30ad\\u30fc\\u3092\\u4f5c\\u6210\n3. \\u0060.env\\u0060\\u30d5\\u30a1\\u30a4\\u30eb\\u306e\\u0060OPENAI_API_KEY\\u0060\\u3092\\u65b0\\u3057\\u3044\\u30ad\\u30fc\\u306b\\u66f4\\u65b0\n4. \\u30b5\\u30a4\\u30c9\\u30d0\\u30fc\\u306e\\u300c\\u8a2d\\u5b9a\\u3092\\u518d\\u8aad\\u307f\\u8fbc\\u307f\\u300d\\u30dc\\u30bf\\u30f3\\u3092\\u62bc\\u3059\n5. \\u300cAPI\\u30ad\\u30fc\\u3092\\u30c6\\u30b9\\u30c8\\u300d\\u30dc\\u30bf\\u30f3\\u3067\\u78ba\\u8a8d\n            \n**\\u6ce8\\u610f**: API\\u30ad\\u30fc\\u306b\\u306f\\u6709\\u52b9\\u671f\\u9650\\u304c\\u3042\\u308a\\u3001\\u4f7f\\u7528\\u5236\\u9650\\u3082\\u3042\\u308a\\u307e\\u3059\\u3002"

\* The string returned at app.py:77-82.
\* First line: ❌ **レート制限エラー**: APIの使用制限に達しました。
MsgRateLimited == "\\u274c **\\u30ec\\u30fc\\u30c8\\u5236\\u9650\\u30a8\\u30e9\\u30fc**: API\\u306e\\u4f7f\\u7528\\u5236\\u9650\\u306b\\u9054\\u3057\\u307e\\u3057\\u305f\\u3002\n            \n**\\u89e3\\u6c7a\\u65b9\\u6cd5**:\n1. \\u3057\\u3070\\u3089\\u304f\\u6642\\u9593\\u3092\\u304a\\u3044\\u3066\\u304b\\u3089\\u518d\\u8a66\\u884c\n2. OpenAI Platform (https://platform.openai.com/usage) \\u3067\\u4f7f\\u7528\\u72b6\\u6cc1\\u3092\\u78ba\\u8a8d\n3. \\u5fc5\\u8981\\u306b\\u5fdc\\u3058\\u3066\\u30d7\\u30e9\\u30f3\\u3092\\u30a2\\u30c3\\u30d7\\u30b0\\u30ec\\u30fc\\u30c9"

\* The string returned at app.py:85-90.
\* First line: ❌ **利用制限エラー**: APIの利用制限に達しているか、課金設定に問題があります。
MsgQuotaExceeded == "\\u274c **\\u5229\\u7528\\u5236\\u9650\\u30a8\\u30e9\\u30fc**: API\\u306e\\u5229\\u7528\\u5236\\u9650\\u306b\\u9054\\u3057\\u3066\\u3044\\u308b\\u304b\\u3001\\u8ab2\\u91d1\\u8a2d\\u5b9a\\u306b\\u554f\\u984c\\u304c\\u3042\\u308a\\u307e\\u3059\\u3002\n            \n**\\u89e3\\u6c7a\\u65b9\\u6cd5**:\n1. OpenAI Platform (https://platform.openai.com/usage) \\u3067\\u4f7f\\u7528\\u72b6\\u6cc1\\u3092\\u78ba\\u8a8d\n2. \\u8ab2\\u91d1\\u8a2d\\u5b9a\\u3092\\u78ba\\u8a8d\\u30fb\\u66f4\\u65b0\n3. \\u5229\\u7528\\u5236\\u9650\\u5185\\u3067\\u306e\\u4f7f\\u7528\\u3092\\u5fc3\\u304c\\u3051\\u3066\\u304f\\u3060\\u3055\\u3044"

\* The string returned at app.py:93-98.
\* First line: ❌ **アクセス権限エラー**: APIへのアクセスが拒否されました。
MsgForbidden == "\\u274c **\\u30a2\\u30af\\u30bb\\u30b9\\u6a29\\u9650\\u30a8\\u30e9\\u30fc**: API\\u3078\\u306e\\u30a2\\u30af\\u30bb\\u30b9\\u304c\\u62d2\\u5426\\u3055\\u308c\\u307e\\u3057\\u305f\\u3002\n            \n**\\u89e3\\u6c7a\\u65b9\\u6cd5**:\n1. API\\u30ad\\u30fc\\u306e\\u6a29\\u9650\\u3092\\u78ba\\u8a8d\n2. OpenAI Platform\\u3067\\u30a2\\u30ab\\u30a6\\u30f3\\u30c8\\u72b6\\u614b\\u3092\\u78ba\\u8a8d\n3. \\u5fc5\\u8981\\u306b\\u5fdc\\u3058\\u3066\\u30b5\\u30dd\\u30fc\\u30c8\\u306b\\u554f\\u3044\\u5408\\u308f\\u305b"

\* The f-string returned at app.py:101-106 is UnknownPrefix, then str(e), then
\* UnknownSuffix.  Prefix: ❌ **予期しないエラー**: 
UnknownPrefix == "\\u274c **\\u4e88\\u671f\\u3057\\u306a\\u3044\\u30a8\\u30e9\\u30fc**: "
UnknownSuffix == "\n            \n**\\u5bfe\\u51e6\\u65b9\\u6cd5**:\n1. \\u30b5\\u30a4\\u30c9\\u30d0\\u30fc\\u306e\\u300cAPI\\u30ad\\u30fc\\u3092\\u30c6\\u30b9\\u30c8\\u300d\\u3067\\u30ad\\u30fc\\u306e\\u6709\\u52b9\\u6027\\u3092\\u78ba\\u8a8d\n2. \\u30a4\\u30f3\\u30bf\\u30fc\\u30cd\\u30c3\\u30c8\\u63a5\\u7d9a\\u3092\\u78ba\\u8a8d\n3. \\u3057\\u3070\\u3089\\u304f\\u6642\\u9593\\u3092\\u304a\\u3044\\u3066\\u304b\\u3089\\u518d\\u8a66\\u884c"

\* The text of st.warning for a blank question (app.py:178).
\* 質問を入力してください。
BlankWarning == "\\u8cea\\u554f\\u3092\\u5165\\u529b\\u3057\\u3066\\u304f\\u3060\\u3055\\u3044\\u3002"
\* model= and temperature= of the request (app.py:45, 50); 0.5 is kept as text.
ModelName == "gpt-4o-mini"
Temperature == "0.5"

\* str(IndexError) of response.choices[0] on an empty list (app.py:53).
IndexErrorText == "list index out of range"

----------------------------------------------------------------------------
\* Bounds and the inputs drawn within them

\* An error text is a concatenation of at most MaxParts fragments.
MaxParts == 2
\* A completion carries at most MaxChoices choices.
MaxChoices == 2

\* Values of OPENAI_API_KEY: unset, empty, two without the prefix, one with it.
Keys == {None, Some(""), Some("not-a-key"), Some("sk_test"), Some("sk-test")}

\* Contents of the text area: empty, blank, and a question with padding.
Questions == {"", " \n", " hi "}

\* Identifiers a direct caller of get_llm_response may pass.
Identifiers == {RadioOptions[i] : i \in 1..Len(RadioOptions)} \cup {"", "Astrologer"}

Fragments ==
    { "401", "invalid_api_key", "429 rate_limit exceeded", "429", "rate_limit",
      "Rate_Limit", "Quota", "billing", "403 forbidden", "40", "3 ",
      "Connection error." }

RECURSIVE Texts(_)
Texts(n) ==
    IF n = 0 THEN {""}
    ELSE LET shorter == Texts(n - 1)
         IN  shorter \cup {t \o f : t \in shorter, f \in Fragments}

\* The texts str(e) of the errors the transport raises.
ErrorTexts == Texts(MaxParts)

\* message.content of one choice.
Contents == {"Eat more vegetables.", " padded \n", ""}

RECURSIVE ChoiceLists(_)
ChoiceLists(n) ==
    IF n = 0 THEN {<<>>}
    ELSE LET shorter == ChoiceLists(n - 1)
         IN  shorter \cup {Append(c, x) : c \in shorter, x \in Contents}

\* response.choices, as the list of the choices' contents.
Choices == ChoiceLists(MaxChoices)

----------------------------------------------------------------------------
\* get_llm_response

\* Mutant of Resolve: the default of the lookup is the empty string.
ResolveEmptyDefault(identifier) ==
    IF identifier \in DOMAIN expert_prompts
    THEN expert_prompts[identifier]
    ELSE ""

\* expert_prompts.get(expert_type, <fallback>)
Resolve(identifier) ==
    IF identifier \in DOMAIN expert_prompts
    THEN expert_prompts[identifier]
    ELSE FallbackPrompt

\* Mutant of CredentialCheck: the test for a missing key is left out.
CredentialCheckNoMissing(api_key) ==
    IF api_key # None /\ ~StartsWith(api_key[1], "sk-") THEN "MalformedCredential"
    ELSE "ok"

\* Mutant of CredentialCheck: the prefix is tested without its dash.
CredentialCheckShortPrefix(api_key) ==
    IF api_key = None \/ api_key[1] = "" THEN "MissingCredential"
    ELSE IF ~StartsWith(api_key[1], "sk") THEN "MalformedCredential"
    ELSE "ok"

\* The two credential checks: "if not api_key" and "if not api_key.startswith".
CredentialCheck(api_key) ==
    IF api_key = None \/ api_key[1] = "" THEN "MissingCredential"
    ELSE IF ~StartsWith(api_key[1], "sk-") THEN "MalformedCredential"
    ELSE "ok"

\* The keyword arguments of client.chat.completions.create, with the client's key.
Request(api_key, system_message, input_text) ==
    [ api_key     |-> api_key,
      model       |-> ModelName,
      messages    |-> << [role |-> "system", content |-> system_message],
                         [role |-> "user", content |-> input_text] >>,
      temperature |-> Temperature ]

\* Mutant of Classify: the rate-limit branch comes before the credential branch.
ClassifyRateFirst(error_message) ==
    IF Contains("429", error_message) \/ Contains("rate_limit", error_message)
    THEN "RateLimited"
    ELSE IF Contains("401", error_message) \/ Contains("invalid_api_key", error_message)
    THEN "InvalidCredential"
    ELSE IF \/ Contains("quota", Lower(error_message))
            \/ Contains("billing", Lower(error_message))
    THEN "QuotaExceeded"
    ELSE IF Contains("403", error_message)
    THEN "Forbidden"
    ELSE "Unknown"

\* Mutant of Classify: the 403 branch is left out.
ClassifyNo403(error_message) ==
    IF Contains("401", error_message) \/ Contains("invalid_api_key", error_message)
    THEN "InvalidCredential"
    ELSE IF Contains("429", error_message) \/ Contains("rate_limit", error_message)
    THEN "RateLimited"
    ELSE IF \/ Contains("quota", Lower(error_message))
            \/ Contains("billing", Lower(error_message))
    THEN "QuotaExceeded"
    ELSE "Unknown"

\* The if/elif chain of the except block, as the branch it takes.
Classify(error_message) ==
    IF Contains("401", error_message) \/ Contains("invalid_api_key", error_message)
    THEN "InvalidCredential"
    ELSE IF Contains("429", error_message) \/ Contains("rate_limit", error_message)
    THEN "RateLimited"
    ELSE IF \/ Contains("quota", Lower(error_message))
            \/ Contains("billing", Lower(error_message))
    THEN "QuotaExceeded"
    ELSE IF Contains("403", error_message)
    THEN "Forbidden"
    ELSE "Unknown"

\* The string each return statement of get_llm_response gives for a failure.
FailureMessage(category, error_message) ==
    CASE category = "MissingCredential"   -> MsgMissingCredential
      [] category = "MalformedCredential" -> MsgMalformedCredential
      [] category = "InvalidCredential"   -> MsgInvalidCredential
      [] category = "RateLimited"         -> MsgRateLimited
      [] category = "QuotaExceeded"       -> MsgQuotaExceeded
      [] category = "Forbidden"           -> MsgForbidden
      [] OTHER -> UnknownPrefix \o error_message \o UnknownSuffix

\* Mutant of Handles: only the transport's own errors are caught.
HandlesApiErrorsOnly(exc) == exc.type = "APIError"

\* "except Exception" catches every exception the try block can raise.
Handles(exc) == TRUE

\* Mutant of FirstChoice: the content is stripped before it is returned.
FirstChoiceStripped(choices) == Strip(choices[1])

\* response.choices[0].message.content
FirstChoice(choices) == choices[1]

\* The frame before any call: no local is bound.
NoCall ==
    [ pc             |-> "none",
      input_text     |-> "",
      expert_type    |-> "",
      system_message |-> "",
      api_key        |-> None,
      sent           |-> <<>>,
      response       |-> None,
      error_message  |-> None,
      category       |-> "none",
      result         |-> None ]

\* The call up to its first return or to the request: the lookup of the prompt,
\* the credential checks, the client and the request.
Enter(input_text, identifier, env) ==
    LET system_message == Resolve(identifier)
        api_key == env
        check == CredentialCheck(api_key)
        frame == [NoCall EXCEPT !.input_text = input_text,
                                !.expert_type = identifier,
                                !.system_message = system_message,
                                !.api_key = api_key]
    IN  IF check # "ok"
        THEN [frame EXCEPT !.pc = "returned",
                           !.category = check,
                           !.result = Some(FailureMessage(check, ""))]
        ELSE [frame EXCEPT !.pc = "awaiting",
                           !.sent = Append(@, Request(api_key, system_message, input_text))]

\* The except block: the exception is classified and its message returned; an
\* exception the block does not catch leaves the call.
Except(frame, exc) ==
    IF Handles(exc)
    THEN LET error_message == exc.text
             category == Classify(error_message)
         IN  [frame EXCEPT !.pc = "returned",
                           !.error_message = Some(error_message),
                           !.category = category,
                           !.result = Some(FailureMessage(category, error_message))]
    ELSE [frame EXCEPT !.pc = "raised"]

\* The request returned a completion with these choices.
OnReturn(frame, choices) ==
    LET got == [frame EXCEPT !.response = Some(choices)]
    IN  IF Len(choices) = 0
        THEN Except(got, [type |-> "IndexError", text |-> IndexErrorText])
        ELSE [got EXCEPT !.pc = "returned",
                         !.category = "Success",
                         !.result = Some(FirstChoice(choices))]

\* Mutant of OnRaise: a rate-limited request is sent once more.
OnRaiseRetry(frame, text) ==
    IF Classify(text) = "RateLimited" /\ Len(frame.sent) < 2
    THEN [frame EXCEPT !.sent = Append(@, @[1])]
    ELSE [frame EXCEPT !.pc = "returned",
                       !.error_message = Some(text),
                       !.category = Classify(text),
                       !.result = Some(FailureMessage(Classify(text), text))]

\* The request raised an error whose str() is text.
OnRaise(frame, text) ==
    Except(frame, [type |-> "APIError", text |-> text])

----------------------------------------------------------------------------
\* The script around the call

\* load_dotenv(override=...): a key of the file is set unless the environment
\* has it and override is off; a file without the key changes nothing.
LoadDotenv(env, file, override) ==
    IF file = None THEN env
    ELSE IF env # None /\ ~override THEN env
    ELSE file

\* The sidebar's key check, which reloads the file over the environment when
\* the key has the prefix.
Sidebar(env, file) ==
    IF CredentialCheck(env) = "ok" THEN LoadDotenv(env, file, TRUE) ELSE env

\* expert_descriptions[expert_type]: None stands for the KeyError.
Describe(identifier) ==
    IF identifier \in DOMAIN expert_descriptions
    THEN Some(expert_descriptions[identifier])
    ELSE None

NothingRendered == [widget |-> "none", text |-> ""]

\* What main shows for a finished call: st.success(response), or the exception
\* that left get_llm_response.
Render(frame) ==
    IF frame.pc = "returned"
    THEN [widget |-> "success", text |-> frame.result[1]]
    ELSE [widget |-> "exception", text |-> ""]

\* A run of the script in which no button is pressed.  A KeyError at st.info ends
\* the run there, before the sidebar.
PlainRun(selection, text) ==
    /\ environ' = IF Describe(selection) = None
                  THEN LoadDotenv(environ, dotenv, FALSE)
                  ELSE Sidebar(LoadDotenv(environ, dotenv, FALSE), dotenv)
    /\ expert_type' = selection
    /\ user_input' = text
    /\ info' = Describe(selection)
    /\ rendered' = IF Describe(selection) = None
                   THEN [widget |-> "exception", text |-> ""]
                   ELSE NothingRendered
    /\ call' = NoCall
    /\ UNCHANGED dotenv

Init ==
    \E e0 \in Keys, d0 \in Keys :
        /\ dotenv = d0
        /\ environ = Sidebar(LoadDotenv(e0, d0, FALSE), d0)
        /\ expert_type = RadioOptions[1]
        /\ user_input = ""
        /\ info = Describe(RadioOptions[1])
        /\ rendered = NothingRendered
        /\ call = NoCall

\* The user picks a radio option.
SelectExpert(selection) ==
    /\ call.pc # "awaiting"
    /\ selection # expert_type
    /\ PlainRun(selection, user_input)

\* The user edits the text area.
TypeQuestion(text) ==
    /\ call.pc # "awaiting"
    /\ text # user_input
    /\ PlainRun(expert_type, text)

\* The user presses the answer button.
ClickAnswer ==
    /\ call.pc # "awaiting"
    /\ info # None
    /\ LET env == LoadDotenv(environ, dotenv, FALSE)
           frame == Enter(user_input, expert_type, env)
       IN  IF Strip(user_input) = ""
           THEN /\ call' = NoCall
                /\ rendered' = [widget |-> "warning", text |-> BlankWarning]
                /\ environ' = Sidebar(env, dotenv)
           ELSE IF frame.pc = "awaiting"
           THEN /\ call' = frame
                /\ rendered' = NothingRendered
                /\ environ' = env
           ELSE /\ call' = frame
                /\ rendered' = Render(frame)
                /\ environ' = Sidebar(env, dotenv)
    /\ UNCHANGED <<dotenv, expert_type, user_input, info>>

\* The transport returns a completion and the run finishes.
TransportReturns(choices) ==
    /\ call.pc = "awaiting"
    /\ call' = OnReturn(call, choices)
    /\ rendered' = Render(call')
    /\ environ' = Sidebar(environ, dotenv)
    /\ UNCHANGED <<dotenv, expert_type, user_input, info>>

\* The transport raises and the run finishes.
TransportRaises(text) ==
    /\ call.pc = "awaiting"
    /\ call' = OnRaise(call, text)
    /\ rendered' = IF call'.pc = "awaiting" THEN rendered ELSE Render(call')
    /\ environ' = IF call'.pc = "awaiting" THEN environ ELSE Sidebar(environ, dotenv)
    /\ UNCHANGED <<dotenv, expert_type, user_input, info>>

\* The user presses the reload button: the run ends with
\* load_dotenv(override=True) and st.rerun(), which runs the script once more.
ClickReload ==
    /\ call.pc # "awaiting"
    /\ info # None
    /\ LET first == Sidebar(LoadDotenv(environ, dotenv, FALSE), dotenv)
           reloaded == LoadDotenv(first, dotenv, TRUE)
       IN  environ' = Sidebar(LoadDotenv(reloaded, dotenv, FALSE), dotenv)
    /\ rendered' = NothingRendered
    /\ call' = NoCall
    /\ UNCHANGED <<dotenv, expert_type, user_input, info>>

\* Someone edits the .env file.
EditDotenv(key) ==
    /\ key # dotenv
    /\ dotenv' = key
    /\ UNCHANGED <<environ, expert_type, user_input, info, rendered, call>>

Next ==
    \/ \E i \in 1..Len(RadioOptions) : SelectExpert(RadioOptions[i])
    \/ \E text \in Questions : TypeQuestion(text)
    \/ ClickAnswer
    \/ \E choices \in Choices : TransportReturns(choices)
    \/ \E text \in ErrorTexts : TransportRaises(text)
    \/ ClickReload
    \/ \E key \in Keys : EditDotenv(key)

Spec == Init /\ [][Next]_vars

----------------------------------------------------------------------------
\* get_llm_response called directly, as a test of the function calls it: any
\* identifier, any text, any environment.  There is no .env file and no form.

InitGateway ==
    /\ environ \in Keys
    /\ dotenv = None
    /\ expert_type = RadioOptions[1]
    /\ user_input = ""
    /\ info = Describe(RadioOptions[1])
    /\ rendered = NothingRendered
    /\ call = NoCall

Invoke(input_text, identifier) ==
    /\ call.pc # "awaiting"
    /\ call' = Enter(input_text, identifier, environ)
    /\ UNCHANGED <<environ, dotenv, expert_type, user_input, info, rendered>>

Returns(choices) ==
    /\ call.pc = "awaiting"
    /\ call' = OnReturn(call, choices)
    /\ UNCHANGED <<environ, dotenv, expert_type, user_input, info, rendered>>

Raises(text) ==
    /\ call.pc = "awaiting"
    /\ call' = OnRaise(call, text)
    /\ UNCHANGED <<environ, dotenv, expert_type, user_input, info, rendered>>

SetEnviron(key) ==
    /\ call.pc # "awaiting"
    /\ key # environ
    /\ environ' = key
    /\ UNCHANGED <<dotenv, expert_type, user_input, info, rendered, call>>

NextGateway ==
    \/ \E text \in Questions, identifier \in Identifiers : Invoke(text, identifier)
    \/ \E choices \in Choices : Returns(choices)
    \/ \E text \in ErrorTexts : Raises(text)
    \/ \E key \in Keys : SetEnviron(key)

SpecGateway == InitGateway /\ [][NextGateway]_vars

----------------------------------------------------------------------------
\* Properties

\* The identifiers of the persona table, written out.
KnownPersonas == {HealthAdvisor, CulinaryExpert, ITConsultant, TravelGuide, BusinessCoach}

\* The messages of the six categories whose text does not depend on the error.
FixedMessages ==
    { MsgMissingCredential, MsgMalformedCredential, MsgInvalidCredential,
      MsgRateLimited, MsgQuotaExceeded, MsgForbidden }

\* The markers of the three categories that come before Forbidden.
HasInvalidMarker(e) == Contains("401", e) \/ Contains("invalid_api_key", e)
HasRateMarker(e) == Contains("429", e) \/ Contains("rate_limit", e)
HasQuotaMarker(e) == Contains("quota", Lower(e)) \/ Contains("billing", Lower(e))

\* C1: when the call caught an error, its category is the first that matches
\* in the order InvalidCredential ("401", "invalid_api_key"), RateLimited ("429",
\* "rate_limit"), QuotaExceeded ("quota", "billing" in the lower-cased text),
\* Forbidden ("403"), else Unknown; the result is that category's own message,
\* and the messages of different categories differ.
C1_ClassificationOrder ==
    call.error_message # None =>
        LET e == call.error_message[1]
            expected ==
                IF HasInvalidMarker(e) THEN "InvalidCredential"
                ELSE IF HasRateMarker(e) THEN "RateLimited"
                ELSE IF HasQuotaMarker(e) THEN "QuotaExceeded"
                ELSE IF Contains("403", e) THEN "Forbidden"
                ELSE "Unknown"
            own ==
                CASE expected = "InvalidCredential" -> MsgInvalidCredential
                  [] expected = "RateLimited"       -> MsgRateLimited
                  [] expected = "QuotaExceeded"     -> MsgQuotaExceeded
                  [] expected = "Forbidden"         -> MsgForbidden
                  [] OTHER -> UnknownPrefix \o e \o UnknownSuffix
        IN  /\ call.pc = "returned"
            /\ call.category = expected
            /\ call.result = Some(own)
            /\ Cardinality(FixedMessages) = 6
            /\ expected = "Unknown" => own \notin FixedMessages
            /\ \A m \in FixedMessages : ~StartsWith(m, UnknownPrefix)

\* C1 happens: a text with a rate-limit marker and "403" is RateLimited.
C1_Witness ==
    /\ call.error_message = Some("429 rate_limit exceeded" \o "403 forbidden")
    /\ call.category = "RateLimited"
    /\ call.result = Some(MsgRateLimited)

\* C2: a call that read no credential (the variable is unset) returned
\* MissingCredential with its fixed message and sent no request, whatever the
\* text and the persona.
C2_MissingCredential ==
    (call.pc # "none" /\ call.api_key = None) =>
        /\ call.pc = "returned"
        /\ call.category = "MissingCredential"
        /\ call.result = Some(MsgMissingCredential)
        /\ call.sent = <<>>
        /\ call.response = None
        /\ call.error_message = None

\* C2 happens: a call with a blank text and an unknown persona read no credential.
C2_Witness ==
    /\ call.pc = "returned"
    /\ call.api_key = None
    /\ call.input_text = " \n"
    /\ call.expert_type = "Astrologer"
    /\ call.category = "MissingCredential"

\* C3, as stated: a call that read a credential (the variable is set) without
\* the prefix "sk-" returned MalformedCredential and sent no request.
C3_PresentWithoutPrefix ==
    (call.pc # "none" /\ call.api_key # None /\ ~StartsWith(call.api_key[1], "sk-")) =>
        /\ call.category = "MalformedCredential"
        /\ call.sent = <<>>

\* C3, amended: a call that read a non-empty credential without the prefix "sk-"
\* returned MalformedCredential with its fixed message and sent no request; an
\* empty credential is reported as MissingCredential.
C3_NonEmptyWithoutPrefix ==
    /\ (/\ call.pc # "none"
        /\ call.api_key # None
        /\ call.api_key[1] # ""
        /\ ~StartsWith(call.api_key[1], "sk-")) =>
            /\ call.pc = "returned"
            /\ call.category = "MalformedCredential"
            /\ call.result = Some(MsgMalformedCredential)
            /\ call.sent = <<>>
    /\ (call.pc # "none" /\ call.api_key = Some("")) =>
            /\ call.category = "MissingCredential"
            /\ call.sent = <<>>

\* C3 happens: the credential "not-a-key" was read and the call returned.
C3_Witness ==
    /\ call.api_key = Some("not-a-key")
    /\ call.category = "MalformedCredential"
    /\ call.sent = <<>>

\* C4, as stated: an error whose text contains "403 forbidden" is Forbidden,
\* whatever else the text contains.
C4_AlwaysForbidden ==
    (call.error_message # None /\ Contains("403 forbidden", call.error_message[1])) =>
        call.category = "Forbidden"

\* C4, amended: an error whose text contains "403 forbidden" is never Unknown;
\* it is Forbidden exactly when the text holds no marker of InvalidCredential,
\* RateLimited or QuotaExceeded, and otherwise it is the first of these three
\* whose marker the text holds.
C4_ForbiddenUnlessEarlierMarker ==
    (call.error_message # None /\ Contains("403 forbidden", call.error_message[1])) =>
        LET e == call.error_message[1]
        IN  /\ call.category # "Unknown"
            /\ call.category = "Forbidden" <=>
                   ~(HasInvalidMarker(e) \/ HasRateMarker(e) \/ HasQuotaMarker(e))
            /\ call.category = "Forbidden" => call.result = Some(MsgForbidden)
            /\ HasInvalidMarker(e) => call.category = "InvalidCredential"
            /\ (~HasInvalidMarker(e) /\ HasRateMarker(e)) => call.category = "RateLimited"
            /\ (~HasInvalidMarker(e) /\ ~HasRateMarker(e) /\ HasQuotaMarker(e)) =>
                   call.category = "QuotaExceeded"

\* C4 happens: the text "403 forbidden" after other words was classified Forbidden.
C4_Witness ==
    /\ call.error_message = Some("Connection error." \o "403 forbidden")
    /\ call.category = "Forbidden"

\* C5: when the request returned a completion with at least one choice, the
\* call returned the first choice's content as it was received.
C5_FirstChoiceUnchanged ==
    (call.response # None /\ Len(call.response[1]) > 0) =>
        /\ call.pc = "returned"
        /\ call.category = "Success"
        /\ call.result = Some(call.response[1][1])
        /\ call.error_message = None

\* C5 happens: a padded first choice, followed by another, was returned as it is.
C5_Witness ==
    /\ call.response = Some(<<" padded \n", "Eat more vegetables.">>)
    /\ call.result = Some(" padded \n")

\* C6: no exception leaves the call; once the transport has answered, the call
\* has returned a value; a failure's message is not empty, and the message of
\* an Unknown failure contains the error's text.
C6_NoFaultPropagates ==
    /\ call.pc # "raised"
    /\ (call.response # None \/ call.error_message # None) => call.pc = "returned"
    /\ call.pc = "returned" =>
        /\ call.result # None
        /\ call.category \in
               { "Success", "MissingCredential", "MalformedCredential",
                 "InvalidCredential", "RateLimited", "QuotaExceeded", "Forbidden",
                 "Unknown" }
        /\ call.category # "Success" => Len(call.result[1]) > 0
        /\ call.category = "Unknown" =>
               /\ call.error_message # None
               /\ Contains(call.error_message[1], call.result[1])
               /\ call.result[1] = UnknownPrefix \o call.error_message[1] \o UnknownSuffix

\* C6 happens: a completion with no choice ended as an Unknown failure that
\* carries the IndexError's text.
C6_Witness ==
    /\ call.response = Some(<<>>)
    /\ call.pc = "returned"
    /\ call.category = "Unknown"
    /\ call.error_message = Some(IndexErrorText)

\* C7: a call sends at most one request, and exactly one when the credential it
\* read starts with "sk-"; a call that caught an error has returned, with that
\* one request sent.
C7_OneRequest ==
    /\ Len(call.sent) <= 1
    /\ call.pc # "none" =>
           (Len(call.sent) = 1 <=>
                (call.api_key # None /\ StartsWith(call.api_key[1], "sk-")))
    /\ call.error_message # None => (call.pc = "returned" /\ Len(call.sent) = 1)

\* C7 happens: a rate-limit error was caught and the call returned after one request.
C7_Witness ==
    /\ call.error_message = Some("429 rate_limit exceeded")
    /\ call.pc = "returned"
    /\ call.category = "RateLimited"
    /\ Len(call.sent) = 1

\* C8: the prompt a call resolved is not empty; for a known persona it is that
\* persona's entry, which differs from the fallback and from every other
\* persona's entry; for any other identifier it is the fallback; and the
\* request's first message is the system message with that prompt.
C8_ResolverTotal ==
    call.pc # "none" =>
        /\ DOMAIN expert_prompts = KnownPersonas
        /\ call.system_message # ""
        /\ call.expert_type \in KnownPersonas =>
               /\ call.system_message = expert_prompts[call.expert_type]
               /\ call.system_message # FallbackPrompt
               /\ \A k \in KnownPersonas \ {call.expert_type} :
                      expert_prompts[k] # call.system_message
        /\ call.expert_type \notin KnownPersonas =>
               call.system_message = FallbackPrompt
        /\ Len(call.sent) > 0 =>
               /\ Len(call.sent[1].messages) = 2
               /\ call.sent[1].messages[1] =
                      [role |-> "system", content |-> call.system_message]
               /\ call.sent[1].messages[2] =
                      [role |-> "user", content |-> call.input_text]

\* C8 happens: a request went out for the identifier "Astrologer".
C8_Witness ==
    /\ call.expert_type = "Astrologer"
    /\ Len(call.sent) = 1
    /\ call.sent[1].messages[1].content = FallbackPrompt

\* C9: every option of the radio, and so the selection, is a key of
\* expert_prompts and of expert_descriptions; the description lookup has not
\* failed and no call of the form resolved the fallback prompt.
C9_OfferedAreKeys ==
    /\ \A i \in 1..Len(RadioOptions) :
           RadioOptions[i] \in (DOMAIN expert_prompts \cap DOMAIN expert_descriptions)
    /\ expert_type \in (DOMAIN expert_prompts \cap DOMAIN expert_descriptions)
    /\ info = Some(expert_descriptions[expert_type])
    /\ rendered.widget # "exception"
    /\ call.pc # "none" =>
           /\ call.expert_type = expert_type
           /\ call.system_message # FallbackPrompt

\* C9 happens: the last option is selected, described, and a request went out for it.
C9_Witness ==
    /\ expert_type = BusinessCoach
    /\ info = Some(expert_descriptions[BusinessCoach])
    /\ Len(call.sent) = 1
    /\ call.system_message = expert_prompts[BusinessCoach]

\* C10: what the form renders as a success is the result of a successful call:
\* a failure of any category is not rendered as a success.
C10_FailureNotRenderedAsSuccess ==
    rendered.widget = "success" => call.category = "Success"

=============================================================================
